---- MODULE Spec2Model ----
(***************************************************************************)
(* Model of the Windows tray-icon window adapter, src/sys/windows/window.rs *)
(* (TrayIconWindow<T>): construction, the window procedure and the subclass *)
(* handler, the icon update and the drop, together with the part of the     *)
(* windowing system they talk to (window table, posted-message queue,       *)
(* notification area, popup-menu tracking) and the mpsc channel.            *)
(*                                                                         *)
(* All program code runs on the thread that owns the window                 *)
(* (TrayIconWindow holds a raw HWND and is not Send); only the channel's    *)
(* receiver may live on another thread.                                     *)
(***************************************************************************)
EXTENDS Integers, Sequences, FiniteSets, TLC

(* ------------------------------ bounds -------------------------------- *)
\* how many window handles the system can give out
MaxWindows == 2
\* how many unreceived values the channel may hold before interactions stop
MaxChan == 2

(* ------------------------- message identifiers ------------------------ *)
WM_CREATE == 1
WM_DESTROY == 2
WM_CLOSE == 16
WM_QUERYENDSESSION == 17
WM_NCCREATE == 129
WM_NCDESTROY == 130
WM_MENUCOMMAND == 294
WM_MOUSEMOVE == 512
WM_LBUTTONUP == 514
WM_LBUTTONDBLCLK == 515
WM_RBUTTONUP == 517
\* msgs::WM_USER_CREATE and msgs::WM_USER_TRAYICON: application messages
\* (WM_USER + n); only their being distinct from every other id matters
WM_USER_CREATE == 1025
WM_USER_TRAYICON == 1026
\* u32::MAX, the initial value of the static WM_TASKBARCREATED.  The
\* checker's integers are 32 bits wide, so a u32 is written as the i32 with
\* the same bits: 0xFFFFFFFF is -1
U32_MAX == -1
\* what RegisterWindowMessageA("TaskbarCreated") returns: the id the OS
\* keeps for that string (registered ids lie in 0xC000..0xFFFF)
TaskbarCreatedId == 49300

\* `x as u32` keeps the low 32 bits; for every value the model can write
\* (32 bits, see U32_MAX) those are the value's own bits
AsU32(x) == x

(* ------------------------------ values -------------------------------- *)
None == "None"
\* the application's event values T, and what each Option<T> parameter of
\* new is drawn from
Events == {"click", "double", "right", "item"}
OptClick == {None, "click"}
OptDouble == {None, "double"}
OptRight == {None, "right"}
\* Option<WinHMenu>
OptMenu == {None, "hmenu"}
\* identifiers of the context menu's items
ItemIds == {7}
\* Option<HashMap<usize, T>>
NoMenuEvents == [is_some |-> FALSE, map |-> <<>>]
OptMenuEvents == {NoMenuEvents, [is_some |-> TRUE, map |-> [i \in ItemIds |-> "item"]]}
\* icon resources (HICON)
Icons == {"icon0", "icon1"}
\* image buffers: one that does not decode, and one for each icon
Buffers == {[decodes |-> FALSE, icon |-> None]} \cup {[decodes |-> TRUE, icon |-> i] : i \in Icons}
\* Error
OsError == "OsError"
IconLoadingFailed == "IconLoadingFailed"
Ok == "Ok"
\* screen positions GetCursorPos may report
CursorPositions == {<<0, 0>>, <<5, 7>>}
WndClassName == "TrayIconCls"

VARIABLES
    classes,            \* window classes registered in the process
    oswin,              \* handles of the native windows that exist
    subclassed,         \* windows with subproc installed (data = the adapter)
    queue,              \* the thread's posted messages, oldest first
    quitFlag,           \* PostQuitMessage was called and WM_QUIT not yet taken
    tray,               \* notification area: window handle -> icon shown
    fg,                 \* the foreground window (0: another application's)
    WM_TASKBARCREATED,  \* static mut WM_TASKBARCREATED of subproc
    window,             \* the boxed TrayIconWindow record
    life,               \* "none" | "live" | "dropped": the adapter's lifetime
    chan,               \* values sent and not yet received
    rxAlive,            \* the Receiver still exists
    sendFailed,         \* a send on the adapter's channel has returned Err
    tracking,           \* a right-click handler is inside menu.track (0 or 1)
    calls,              \* the calls made by the last step, in order of completion
    result,             \* what the last step, if an application call, was given and returned
    created,            \* what CreateWindowExA returned to the last call of new
    failedWins          \* the windows created by calls of new that returned Err

vars == <<classes, oswin, subclassed, queue, quitFlag, tray, fg,
          WM_TASKBARCREATED, window, life, chan, rxAlive,
          sendFailed, tracking, calls, result, created, failedWins>>

\* struct TrayIconWindow<T> (its sender is the channel `chan`)
TrayIconWindow(hwnd, notify_icon, hmenu, click, double_click, right_click, menu_events) ==
    [hwnd |-> hwnd, notify_icon |-> notify_icon, hmenu |-> hmenu,
     click_event |-> click, double_click_event |-> double_click,
     right_click_event |-> right_click, menu_events |-> menu_events]

NoWindow == TrayIconWindow(0, "icon0", None, None, None, None, NoMenuEvents)

\* the fields of the record other than the icon
Frame(w) == <<w.hwnd, w.hmenu, w.click_event, w.double_click_event,
              w.right_click_event, w.menu_events>>

(* --------------------------------------------------------------------- *)
(* The handlers call each other synchronously (SendMessageA, the default  *)
(* procedures), so they are operators on a record S of the state they may *)
(* change; an action gathers S from the variables, applies the handler    *)
(* and commits the result.  S.cursor is the position GetCursorPos reports *)
(* during the step and S.ret the last returned LRESULT.  S.sent, S.adds,  *)
(* S.quits and S.tracks collect what the running call did (the values     *)
(* handed to Sender::send, the NotifyIcon::add calls, the PostQuitMessage *)
(* calls, the WinHMenu::track calls) and S.inTrack tells that it is       *)
(* inside menu.track; S.sentBefore is how many values it had handed to    *)
(* Sender::send when it called menu.track (-1: it has not called it);     *)
(* Return moves them into the call's entry of S.calls.                    *)
(* --------------------------------------------------------------------- *)
St(cursor) ==
    [oswin |-> oswin, subclassed |-> subclassed,
     queue |-> queue, quitFlag |-> quitFlag, tray |-> tray, fg |-> fg,
     tbc |-> WM_TASKBARCREATED, window |-> window, life |-> life,
     chan |-> chan, sendFailed |-> sendFailed, tracking |-> tracking,
     classes |-> classes,
     created |-> created, failedWins |-> failedWins,
     cursor |-> cursor, calls |-> <<>>, ret |-> 0, value |-> None,
     sent |-> <<>>, adds |-> 0, quits |-> 0, tracks |-> <<>>, inTrack |-> FALSE,
     sentBefore |-> -1]

Commit(S) ==
    /\ oswin' = S.oswin
    /\ subclassed' = S.subclassed
    /\ queue' = S.queue
    /\ quitFlag' = S.quitFlag
    /\ tray' = S.tray
    /\ fg' = S.fg
    /\ WM_TASKBARCREATED' = S.tbc
    /\ window' = S.window
    /\ life' = S.life
    /\ chan' = S.chan
    /\ sendFailed' = S.sendFailed
    /\ tracking' = S.tracking
    /\ classes' = S.classes
    /\ calls' = S.calls
    /\ created' = S.created
    /\ failedWins' = S.failedWins

\* The entry of one call in S.calls.  began: the call started in this step
\* (FALSE for the return of a handler that was inside menu.track);
\* returned: it has returned, with ret; fwd: it handed the message to the
\* next procedure; life, static, afterFailure: the adapter's lifetime, the
\* static WM_TASKBARCREATED and whether a send had failed when it started;
\* start: how many calls of the step had completed when it started (the
\* calls logged after that and before its own entry ran inside it); inMenu:
\* it started while a right-click handler was inside menu.track; rec: the
\* adapter record's fields other than the icon when it started (while it
\* runs); kept: they were the same when it returned.
Call(proc, hwnd, msg, wparam, lparam) ==
    [proc |-> proc, hwnd |-> hwnd, msg |-> msg, wparam |-> wparam, lparam |-> lparam,
     ret |-> 0, began |-> TRUE, returned |-> TRUE, fwd |-> FALSE, sent |-> <<>>,
     tracks |-> <<>>, cursor |-> <<0, 0>>, adds |-> 0, quits |-> 0,
     life |-> "none", static |-> 0, afterFailure |-> FALSE,
     start |-> 0, inMenu |-> FALSE, rec |-> <<>>, kept |-> TRUE,
     sentBefore |-> -1]

\* the entry of a call that starts in state S (s and c below name the
\* values of S and call, so that each is computed once)
Enter(S, proc, hwnd, msg, wparam, lparam) ==
    CHOOSE e \in {[Call(proc, hwnd, msg, wparam, lparam) EXCEPT
                     !.life = s.life, !.static = s.tbc, !.afterFailure = s.sendFailed,
                     !.start = Len(s.calls), !.inMenu = (s.tracking > 0),
                     !.rec = Frame(s.window)] : s \in {S}} : TRUE

Return(S, call) ==
    CHOOSE r \in {[s EXCEPT !.calls = Append(@, [c EXCEPT !.sent = s.sent, !.adds = s.adds,
                                                          !.quits = s.quits, !.tracks = s.tracks,
                                                          !.cursor = s.cursor,
                                                          !.returned = ~s.inTrack,
                                                          !.kept = (Frame(s.window) = c.rec),
                                                          !.rec = <<>>,
                                                          !.sentBefore = s.sentBefore]),
                             !.ret = c.ret, !.inTrack = FALSE,
                             !.sent = <<>>, !.adds = 0, !.quits = 0, !.tracks = <<>>,
                             !.sentBefore = -1] : s \in {S}, c \in {call}} : TRUE

(* ------------------------- the windowing system ----------------------- *)
\* Sender::send: the value is queued unless the Receiver is gone (Err)
send(S, e) ==
    [S EXCEPT !.chan = IF rxAlive THEN Append(@, e) ELSE @,
              !.sendFailed = @ \/ ~rxAlive,
              !.sent = Append(@, e)]

\* RegisterWindowMessageA: the same string always gets the same id
RegisterWindowMessageA(name) == TaskbarCreatedId

\* NotifyIcon::add: Shell_NotifyIcon(NIM_ADD) for the adapter's icon
NotifyIcon_add(S, hwnd) ==
    [S EXCEPT !.tray = [h \in DOMAIN @ \cup {hwnd} |->
                           IF h = hwnd THEN S.window.notify_icon ELSE @[h]],
              !.adds = @ + 1]

\* NotifyIcon::set_icon: the record's icon, and the shown one when attached
NotifyIcon_set_icon(S, icon) ==
    [S EXCEPT !.window.notify_icon = icon,
              !.tray = [h \in DOMAIN @ |->
                           IF h = S.window.hwnd THEN icon ELSE @[h]]]

\* WinHIcon::new_from_buffer: Some(icon) when the buffer decodes
WinHIcon_new_from_buffer(buffer) == IF buffer.decodes THEN buffer.icon ELSE None

PostMessageA(S, hwnd, msg, wparam, lparam) ==
    IF hwnd \in S.oswin
    THEN [S EXCEPT !.queue = Append(@, [hwnd |-> hwnd, msg |-> msg,
                                        wparam |-> wparam, lparam |-> lparam])]
    ELSE S

PostQuitMessage(S) == [S EXCEPT !.quitFlag = TRUE, !.quits = @ + 1]

GetCursorPos(S) == S.cursor

SetForegroundWindow(S, hwnd) == [S EXCEPT !.fg = hwnd]

\* WinHMenu::track: TrackPopupMenu shows the menu and runs its modal loop,
\* so that the call returns when the menu is dismissed (action TrackEnd);
\* while a popup menu is shown already the call fails and returns at once
WinHMenu_track(S, hwnd, x, y) ==
    [S EXCEPT !.tracking = 1, !.inTrack = (S.tracking = 0),
              !.tracks = Append(@, <<hwnd, x, y>>),
              !.sentBefore = Len(S.sent)]

RECURSIVE CallWindowProc(_, _, _, _, _)

\* DestroyWindow: WM_DESTROY and WM_NCDESTROY are sent, then the window and
\* the messages posted to it are gone (and the shell drops the icon of a
\* window that is gone)
DestroyWindow(S, hwnd) ==
    LET S1 == CallWindowProc(S, hwnd, WM_DESTROY, 0, 0)
        S2 == CallWindowProc(S1, hwnd, WM_NCDESTROY, 0, 0)
    IN [S2 EXCEPT !.oswin = @ \ {hwnd},
                  !.subclassed = @ \ {hwnd},
                  !.tray = [h \in DOMAIN @ \ {hwnd} |-> @[h]],
                  !.queue = SelectSeq(@, LAMBDA m : m.hwnd # hwnd),
                  !.fg = IF @ = hwnd THEN 0 ELSE @]

\* DefWindowProcA: WM_CLOSE destroys the window; the result is TRUE for
\* WM_NCCREATE and WM_QUERYENDSESSION and 0 for the other messages here
DefWindowProcA(S, hwnd, msg, wparam, lparam) ==
    LET S1 == IF msg = WM_CLOSE THEN DestroyWindow(S, hwnd) ELSE S
        r == IF msg \in {WM_NCCREATE, WM_QUERYENDSESSION} THEN 1 ELSE 0
    IN Return(S1, [Enter(S, "DefWindowProcA", hwnd, msg, wparam, lparam) EXCEPT
                      !.ret = r])

(* ------------------------------ winproc ------------------------------- *)
\* TrayIconWindow::winproc: WM_CREATE posts WM_USER_CREATE and returns 0,
\* every other message goes to DefWindowProcA
winproc(S, hwnd, msg, wparam, lparam) ==
    IF msg = WM_CREATE
    THEN Return(PostMessageA(S, AsU32(hwnd), WM_USER_CREATE, wparam, lparam),
                Enter(S, "winproc", hwnd, msg, wparam, lparam))
    ELSE LET D == DefWindowProcA(S, hwnd, msg, wparam, lparam)
         IN Return(D, [Enter(S, "winproc", hwnd, msg, wparam, lparam) EXCEPT
                     !.fwd = TRUE, !.ret = D.ret])

\* commctrl::DefSubclassProc: the next handler of the chain, which is the
\* class's window procedure
DefSubclassProc(S, hwnd, msg, wparam, lparam) == winproc(S, hwnd, msg, wparam, lparam)

(* ------------------------------ subproc ------------------------------- *)
\* msgs::WM_USER_CREATE => { ... }
subproc_WM_USER_CREATE(S, hwnd, msg, wparam, lparam) ==
    LET S1 == [S EXCEPT !.tbc = RegisterWindowMessageA("TaskbarCreated")]
        S2 == NotifyIcon_add(S1, hwnd)
    IN Return(S2, Enter(S, "subproc", hwnd, msg, wparam, lparam))

\* mutant: the menu-command arm takes the mapping out of the record
subproc_WM_MENUCOMMAND_take(S, hwnd, msg, wparam, lparam) ==
    Return([S EXCEPT !.window.menu_events = NoMenuEvents],
           Enter(S, "subproc", hwnd, msg, wparam, lparam))

\* winuser::WM_MENUCOMMAND => { println!("Menu!"); }
subproc_WM_MENUCOMMAND(S, hwnd, msg, wparam, lparam) ==
    Return(S, Enter(S, "subproc", hwnd, msg, wparam, lparam))

\* mutant: the left-click arm sends the double-click event
subproc_WM_LBUTTONUP_double(S, hwnd, msg, wparam, lparam) ==
    LET S1 == IF S.window.double_click_event # None
              THEN send(S, S.window.double_click_event) ELSE S
    IN Return(S1, Enter(S, "subproc", hwnd, msg, wparam, lparam))

\* winuser::WM_LBUTTONUP => { ... }
subproc_WM_LBUTTONUP(S, hwnd, msg, wparam, lparam) ==
    LET S1 == IF S.window.click_event # None
              THEN send(S, S.window.click_event) ELSE S
    IN Return(S1, Enter(S, "subproc", hwnd, msg, wparam, lparam))

\* mutant: the menu is shown inside the `if let Some(e)` of the event
subproc_WM_RBUTTONUP_nested(S, hwnd, msg, wparam, lparam) ==
    IF S.window.right_click_event # None
    THEN LET S1 == send(S, S.window.right_click_event)
         IN IF S.window.hmenu # None
            THEN LET pos == GetCursorPos(S1)
                     S2 == SetForegroundWindow(S1, hwnd)
                     S3 == WinHMenu_track(S2, hwnd, pos[1], pos[2])
                 IN Return(S3, Enter(S, "subproc", hwnd, msg, wparam, lparam))
            ELSE Return(S1, Enter(S, "subproc", hwnd, msg, wparam, lparam))
    ELSE Return(S, Enter(S, "subproc", hwnd, msg, wparam, lparam))

\* mutant: a failed send ends the arm (`?` in place of `let _ =`)
subproc_WM_RBUTTONUP_try(S, hwnd, msg, wparam, lparam) ==
    LET S1 == IF S.window.right_click_event # None
              THEN send(S, S.window.right_click_event) ELSE S
    IN IF S.window.hmenu # None /\ ~(S1.sendFailed /\ S1.sent # <<>>)
       THEN LET pos == GetCursorPos(S1)
                S2 == SetForegroundWindow(S1, hwnd)
                S3 == WinHMenu_track(S2, hwnd, pos[1], pos[2])
            IN Return(S3, Enter(S, "subproc", hwnd, msg, wparam, lparam))
       ELSE Return(S1, Enter(S, "subproc", hwnd, msg, wparam, lparam))

\* mutant: the menu is shown first and the event sent when it is dismissed
subproc_WM_RBUTTONUP_menu_first(S, hwnd, msg, wparam, lparam) ==
    LET S3 == IF S.window.hmenu # None
              THEN LET pos == GetCursorPos(S)
                       S2 == SetForegroundWindow(S, hwnd)
                   IN WinHMenu_track(S2, hwnd, pos[1], pos[2])
              ELSE S
        S4 == IF S.window.right_click_event # None
              THEN send(S3, S.window.right_click_event) ELSE S3
    IN Return(S4, Enter(S, "subproc", hwnd, msg, wparam, lparam))

\* winuser::WM_RBUTTONUP => { ... }: the handler is inside menu.track when
\* a menu is configured and returns at TrackEnd
subproc_WM_RBUTTONUP(S, hwnd, msg, wparam, lparam) ==
    LET S1 == IF S.window.right_click_event # None
              THEN send(S, S.window.right_click_event) ELSE S
    IN IF S.window.hmenu # None
       THEN LET pos == GetCursorPos(S1)
                S2 == SetForegroundWindow(S1, hwnd)
                S3 == WinHMenu_track(S2, hwnd, pos[1], pos[2])
            IN Return(S3, Enter(S, "subproc", hwnd, msg, wparam, lparam))
       ELSE Return(S1, Enter(S, "subproc", hwnd, msg, wparam, lparam))

\* mutant: without a double-click event the arm falls back to the click event
subproc_WM_LBUTTONDBLCLK_or_click(S, hwnd, msg, wparam, lparam) ==
    LET e == IF S.window.double_click_event # None
             THEN S.window.double_click_event ELSE S.window.click_event
        S1 == IF e # None THEN send(S, e) ELSE S
    IN Return(S1, Enter(S, "subproc", hwnd, msg, wparam, lparam))

\* winuser::WM_LBUTTONDBLCLK => { ... }
subproc_WM_LBUTTONDBLCLK(S, hwnd, msg, wparam, lparam) ==
    LET S1 == IF S.window.double_click_event # None
              THEN send(S, S.window.double_click_event) ELSE S
    IN Return(S1, Enter(S, "subproc", hwnd, msg, wparam, lparam))

\* msgs::WM_USER_TRAYICON => match lparam as u32 { ... }
subproc_WM_USER_TRAYICON(S, hwnd, msg, wparam, lparam) ==
    IF AsU32(lparam) = WM_LBUTTONUP THEN subproc_WM_LBUTTONUP(S, hwnd, msg, wparam, lparam)
    ELSE IF AsU32(lparam) = WM_RBUTTONUP THEN subproc_WM_RBUTTONUP(S, hwnd, msg, wparam, lparam)
    ELSE IF AsU32(lparam) = WM_LBUTTONDBLCLK THEN subproc_WM_LBUTTONDBLCLK(S, hwnd, msg, wparam, lparam)
    ELSE Return(S, Enter(S, "subproc", hwnd, msg, wparam, lparam))

\* mutant: the destroy arm asks for the quit twice
subproc_WM_DESTROY_twice(S, hwnd, msg, wparam, lparam) ==
    Return(PostQuitMessage(PostQuitMessage(S)), Enter(S, "subproc", hwnd, msg, wparam, lparam))

\* winuser::WM_DESTROY => { PostQuitMessage(0); }
subproc_WM_DESTROY(S, hwnd, msg, wparam, lparam) ==
    Return(PostQuitMessage(S), Enter(S, "subproc", hwnd, msg, wparam, lparam))

\* mutant: the TaskbarCreated arm does not add the icon
subproc_WM_TASKBARCREATED_noadd(S, hwnd, msg, wparam, lparam) ==
    Return(S, Enter(S, "subproc", hwnd, msg, wparam, lparam))

\* x if x == WM_TASKBARCREATED => { window.notify_icon.add(hwnd); }
subproc_WM_TASKBARCREATED(S, hwnd, msg, wparam, lparam) ==
    Return(NotifyIcon_add(S, hwnd), Enter(S, "subproc", hwnd, msg, wparam, lparam))

\* mutant: the default arm forwards the message and returns 0
subproc_default_zero(S, hwnd, msg, wparam, lparam) ==
    LET D == DefSubclassProc(S, hwnd, msg, wparam, lparam)
    IN Return(D, [Enter(S, "subproc", hwnd, msg, wparam, lparam) EXCEPT
                     !.fwd = TRUE, !.ret = 0])

\* _ => { return commctrl::DefSubclassProc(hwnd, msg, wparam, lparam); }
subproc_default(S, hwnd, msg, wparam, lparam) ==
    LET D == DefSubclassProc(S, hwnd, msg, wparam, lparam)
    IN Return(D, [Enter(S, "subproc", hwnd, msg, wparam, lparam) EXCEPT
                     !.fwd = TRUE, !.ret = D.ret])

\* TrayIconWindow::subproc: the arms in the order of the match; `data` is
\* the pointer to the boxed adapter, S.window
subproc(S, hwnd, msg, wparam, lparam) ==
    IF msg = WM_USER_CREATE THEN subproc_WM_USER_CREATE(S, hwnd, msg, wparam, lparam)
    ELSE IF msg = WM_MENUCOMMAND THEN subproc_WM_MENUCOMMAND(S, hwnd, msg, wparam, lparam)
    ELSE IF msg = WM_USER_TRAYICON THEN subproc_WM_USER_TRAYICON(S, hwnd, msg, wparam, lparam)
    ELSE IF msg = WM_DESTROY THEN subproc_WM_DESTROY(S, hwnd, msg, wparam, lparam)
    ELSE IF msg = S.tbc THEN subproc_WM_TASKBARCREATED(S, hwnd, msg, wparam, lparam)
    ELSE subproc_default(S, hwnd, msg, wparam, lparam)

\* how the system calls a window's procedure: the subclass handler when
\* one is installed, the class's window procedure otherwise
CallWindowProc(S, hwnd, msg, wparam, lparam) ==
    IF hwnd \in S.subclassed THEN subproc(S, hwnd, msg, wparam, lparam)
    ELSE winproc(S, hwnd, msg, wparam, lparam)

\* a broadcast message: each window of `hs` gets it, in handle order
RECURSIVE Broadcast(_, _, _)
Broadcast(S, hs, msg) ==
    IF hs = {} THEN S
    ELSE LET h == CHOOSE x \in hs : \A y \in hs : x <= y
         IN Broadcast(CallWindowProc(S, h, msg, 0, 0), hs \ {h}, msg)

\* SendMessageA: the procedure runs before the call returns; an invalid
\* handle makes the call fail with 0
SendMessageA(S, hwnd, msg, wparam, lparam) ==
    LET R == IF hwnd \in S.oswin THEN CallWindowProc(S, hwnd, msg, wparam, lparam)
             ELSE [S EXCEPT !.ret = 0]
    IN Return(R, [Enter(S, "SendMessageA", hwnd, msg, wparam, lparam) EXCEPT
                     !.ret = R.ret])

(* ------------------------- new, drop, set_icon ------------------------ *)
\* RegisterClassA: fails, changing nothing, when the class exists already
RegisterClassA(S, name) ==
    IF name \in S.classes THEN [S EXCEPT !.ret = 0]
    ELSE [S EXCEPT !.classes = @ \cup {name}, !.ret = 1]

\* the window handles, and those not in use
Handles == 1 .. MaxWindows
FreeHandles(S) == Handles \ S.oswin

\* CreateWindowExA: 0 on failure (the class is unknown, no handle is left,
\* or any other reason: ~ok); on success the new window's procedure has
\* received WM_NCCREATE and WM_CREATE before the call returns
CreateWindowExA(S, name, ok) ==
    IF ~ok \/ ~(name \in S.classes) \/ FreeHandles(S) = {}
    THEN [S EXCEPT !.ret = 0, !.created = 0]
    ELSE LET h == CHOOSE x \in FreeHandles(S) : \A y \in FreeHandles(S) : x <= y
             S1 == [S EXCEPT !.oswin = @ \cup {h}]
             S2 == CallWindowProc(S1, h, WM_NCCREATE, 0, 0)
             S3 == CallWindowProc(S2, h, WM_CREATE, 0, 0)
         IN [S3 EXCEPT !.ret = h, !.created = h]

\* commctrl::SetWindowSubclass: 0 on failure
SetWindowSubclass(S, hwnd, ok) ==
    IF ok /\ hwnd \in S.oswin
    THEN [S EXCEPT !.subclassed = @ \cup {hwnd}, !.ret = 1]
    ELSE [S EXCEPT !.ret = 0]

\* mutant: drop posts the close request and returns
drop_posted(S) ==
    [PostMessageA([S EXCEPT !.life = "dropping"], S.window.hwnd, WM_CLOSE, 0, 0)
        EXCEPT !.life = "dropped"]

\* Drop for TrayIconWindow
drop(S) ==
    [SendMessageA([S EXCEPT !.life = "dropping"], S.window.hwnd, WM_CLOSE, 0, 0)
        EXCEPT !.life = "dropped"]

\* mutant: new without `window.hwnd = hwnd` (line 113)
new_hwnd_unset(S, hmenu, click_event, double_click_event, right_click_event, menu_events, createOk, subclassOk) ==
    LET S0 == RegisterClassA(S, WndClassName)
        S1 == [S0 EXCEPT !.life = "live",
                         !.window = TrayIconWindow(0, "icon0", hmenu, click_event,
                                                   double_click_event, right_click_event,
                                                   menu_events)]
        S2 == CreateWindowExA(S1, WndClassName, createOk)
        hwnd == AsU32(S2.ret)
    IN IF hwnd = 0
       THEN [drop(S2) EXCEPT !.value = OsError]
       ELSE LET S3 == SetWindowSubclass(S2, hwnd, subclassOk)
            IN IF S3.ret = 0
               THEN [drop(S3) EXCEPT !.value = OsError]
               ELSE [S3 EXCEPT !.value = Ok]

\* mutant: new without the `if proc == 0` return (lines 110-112)
new_proc_unchecked(S, hmenu, click_event, double_click_event, right_click_event, menu_events, createOk, subclassOk) ==
    LET S0 == RegisterClassA(S, WndClassName)
        S1 == [S0 EXCEPT !.life = "live",
                         !.window = TrayIconWindow(0, "icon0", hmenu, click_event,
                                                   double_click_event, right_click_event,
                                                   menu_events)]
        S2 == CreateWindowExA(S1, WndClassName, createOk)
        hwnd == AsU32(S2.ret)
    IN IF hwnd = 0
       THEN [drop(S2) EXCEPT !.value = OsError]
       ELSE LET S3 == SetWindowSubclass(S2, hwnd, subclassOk)
            IN [S3 EXCEPT !.window.hwnd = hwnd, !.value = Ok]

\* mutant: new gives up when RegisterClassA fails
new_class_checked(S, hmenu, click_event, double_click_event, right_click_event, menu_events, createOk, subclassOk) ==
    LET S0 == RegisterClassA(S, WndClassName)
        S1 == [S0 EXCEPT !.life = "live",
                         !.window = TrayIconWindow(0, "icon0", hmenu, click_event,
                                                   double_click_event, right_click_event,
                                                   menu_events)]
        S2 == CreateWindowExA(S1, WndClassName, createOk)
        hwnd == AsU32(S2.ret)
    IN IF S0.ret = 0
       THEN [drop([S1 EXCEPT !.created = 0]) EXCEPT !.value = OsError]
       ELSE IF hwnd = 0
       THEN [drop(S2) EXCEPT !.value = OsError]
       ELSE LET S3 == SetWindowSubclass(S2, hwnd, subclassOk)
            IN IF S3.ret = 0
               THEN [drop(S3) EXCEPT !.value = OsError]
               ELSE [S3 EXCEPT !.window.hwnd = hwnd, !.value = Ok]

\* TrayIconWindow::new; on both error returns the box goes out of scope
\* and is dropped
new(S, hmenu, click_event, double_click_event, right_click_event, menu_events, createOk, subclassOk) ==
    LET S0 == RegisterClassA(S, WndClassName)
        S1 == [S0 EXCEPT !.life = "live",
                         !.window = TrayIconWindow(0, "icon0", hmenu, click_event,
                                                   double_click_event, right_click_event,
                                                   menu_events)]
        S2 == CreateWindowExA(S1, WndClassName, createOk)
        hwnd == AsU32(S2.ret)
    IN IF hwnd = 0
       THEN [drop(S2) EXCEPT !.value = OsError]
       ELSE LET S3 == SetWindowSubclass(S2, hwnd, subclassOk)
            IN IF S3.ret = 0
               THEN [drop(S3) EXCEPT !.value = OsError]
               ELSE [S3 EXCEPT !.window.hwnd = hwnd, !.value = Ok]

\* mutant: a buffer that does not decode puts the default icon in place
set_icon_from_buffer_default(S, buffer) ==
    LET icon == WinHIcon_new_from_buffer(buffer)
    IN IF icon = None
       THEN [NotifyIcon_set_icon(S, "icon0") EXCEPT !.value = IconLoadingFailed]
       ELSE [NotifyIcon_set_icon(S, icon) EXCEPT !.value = Ok]

\* TrayIconBase::set_icon_from_buffer
set_icon_from_buffer(S, buffer) ==
    LET icon == WinHIcon_new_from_buffer(buffer)
    IN IF icon = None THEN [S EXCEPT !.value = IconLoadingFailed]
       ELSE [NotifyIcon_set_icon(S, icon) EXCEPT !.value = Ok]

(* ------------------------------ actions ------------------------------- *)
EmptyTray == [h \in {} |-> "icon0"]
\* the icon the shell shows for window h (None: it shows none)
Shown(h) == IF h \in DOMAIN tray THEN tray[h] ELSE None

\* what `result` records: the call, its inputs, its returned value, and for
\* the icon update the record's icon and the shown icon before the call
NoResult == [op |-> "none", value |-> None, createOk |-> FALSE,
             subclassOk |-> FALSE, buffer |-> [decodes |-> FALSE, icon |-> None],
             icon_before |-> None, shown_before |-> None]

Init ==
    /\ classes = {}
    /\ oswin = {}
    /\ subclassed = {}
    /\ queue = <<>>
    /\ quitFlag = FALSE
    /\ tray = EmptyTray
    /\ fg = 0
    /\ WM_TASKBARCREATED = U32_MAX
    /\ window = NoWindow
    /\ life = "none"
    /\ chan = <<>>
    /\ rxAlive = TRUE
    /\ sendFailed = FALSE
    /\ tracking = 0
    /\ calls = <<>>
    /\ result = NoResult
    /\ created = 0
    /\ failedWins = {}

\* the application is between two messages: no handler is running
AppIdle == tracking = 0

\* mpsc::channel(): the application makes a channel for each adapter
FreshChannel(S) == [S EXCEPT !.chan = <<>>, !.sendFailed = FALSE]

\* the application constructs the adapter: one adapter at a time, and a
\* message loop that was asked to quit has ended before the next call
Construct ==
    /\ AppIdle
    /\ life # "live"
    /\ ~quitFlag
    /\ \E hmenu \in OptMenu, click_event \in OptClick, double_click_event \in OptDouble,
          right_click_event \in OptRight, createOk \in BOOLEAN, subclassOk \in BOOLEAN :
       \E menu_events \in IF hmenu = None THEN {NoMenuEvents} ELSE OptMenuEvents :
         LET R == new(FreshChannel(St(<<0, 0>>)), hmenu, click_event, double_click_event,
                      right_click_event, menu_events, createOk, subclassOk)
         IN /\ Commit(IF R.value = Ok THEN R
                      ELSE [R EXCEPT !.life = "none", !.window = NoWindow,
                                     !.failedWins = @ \cup (R.oswin \ oswin)])
            /\ result' = [NoResult EXCEPT !.op = "new", !.value = R.value,
                                          !.createOk = createOk,
                                          !.subclassOk = subclassOk]
    /\ rxAlive' = TRUE

\* the application drops the adapter that new returned; the box's memory
\* is released when drop has returned
Drop ==
    /\ AppIdle
    /\ life = "live"
    /\ Commit([drop(St(<<0, 0>>)) EXCEPT !.window = NoWindow])
    /\ result' = [NoResult EXCEPT !.op = "drop"]
    /\ UNCHANGED rxAlive

\* the application replaces the icon
SetIcon ==
    /\ AppIdle
    /\ life = "live"
    /\ \E buffer \in Buffers :
         LET R == set_icon_from_buffer(St(<<0, 0>>), buffer)
         IN /\ Commit(R)
            /\ result' = [NoResult EXCEPT !.op = "set_icon_from_buffer",
                                          !.value = R.value, !.buffer = buffer,
                                          !.icon_before = window.notify_icon,
                                          !.shown_before = Shown(window.hwnd)]
    /\ UNCHANGED rxAlive

\* the message loop (the application's, or the menu's modal one) takes the
\* oldest posted message and dispatches it
PumpPosted ==
    /\ queue # <<>>
    /\ LET m == Head(queue)
           S == [St(<<0, 0>>) EXCEPT !.queue = Tail(@)]
       IN Commit(CallWindowProc(S, m.hwnd, m.msg, m.wparam, m.lparam))
    /\ result' = NoResult
    /\ UNCHANGED rxAlive

\* GetMessage returns WM_QUIT once the queue is empty
PumpQuit ==
    /\ AppIdle
    /\ quitFlag
    /\ queue = <<>>
    /\ quitFlag' = FALSE
    /\ calls' = <<>>
    /\ UNCHANGED <<classes, oswin, subclassed, queue, tray, fg,
                   WM_TASKBARCREATED, window, life, chan, rxAlive,
                   sendFailed, tracking, created, failedWins>>
    /\ result' = NoResult

\* the shell reports an interaction with an icon it shows
Interaction ==
    /\ Len(chan) < MaxChan
    /\ \E h \in DOMAIN tray \cap oswin,
          lparam \in {WM_LBUTTONUP, WM_RBUTTONUP, WM_LBUTTONDBLCLK, WM_MOUSEMOVE},
          cursor \in CursorPositions :
         /\ Commit(CallWindowProc(St(cursor), h, WM_USER_TRAYICON, 0, lparam))
    /\ result' = NoResult
    /\ UNCHANGED rxAlive

\* the shell restarted: its icons are gone and every window gets the
\* TaskbarCreated message
TaskbarCreated ==
    /\ oswin # {}
    /\ Commit(Broadcast([St(<<0, 0>>) EXCEPT !.tray = EmptyTray], oswin,
                        TaskbarCreatedId))
    /\ result' = NoResult
    /\ UNCHANGED rxAlive

\* the user picks an item of the menu that is being shown
MenuCommand ==
    /\ tracking > 0
    /\ window.hwnd \in oswin
    /\ \E item \in ItemIds :
         Commit(CallWindowProc(St(<<0, 0>>), window.hwnd, WM_MENUCOMMAND, item, 0))
    /\ result' = NoResult
    /\ UNCHANGED rxAlive

\* a message of no meaning to the adapter reaches a window (nothing but
\* the adapter closes the window: it owns it)
OtherMessage ==
    /\ \E h \in oswin, msg \in {WM_QUERYENDSESSION, U32_MAX} :
         Commit(CallWindowProc(St(<<0, 0>>), h, msg, 0, 0))
    /\ result' = NoResult
    /\ UNCHANGED rxAlive

\* the menu is dismissed: menu.track returns and the right-click handler
\* returns 0
TrackEnd ==
    /\ tracking > 0
    /\ tracking' = tracking - 1
    /\ calls' = <<[Enter(St(<<0, 0>>), "subproc", window.hwnd, WM_USER_TRAYICON,
                          0, WM_RBUTTONUP) EXCEPT !.began = FALSE, !.rec = <<>>]>>
    /\ UNCHANGED <<classes, oswin, subclassed, queue, quitFlag, tray, fg,
                   WM_TASKBARCREATED, window, life, chan, rxAlive,
                   sendFailed, created, failedWins>>
    /\ result' = NoResult

\* the application receives a value
Recv ==
    /\ rxAlive
    /\ chan # <<>>
    /\ chan' = Tail(chan)
    /\ calls' = <<>>
    /\ result' = NoResult
    /\ UNCHANGED <<classes, oswin, subclassed, queue, quitFlag, tray, fg,
                   WM_TASKBARCREATED, window, life, rxAlive,
                   sendFailed, tracking, created, failedWins>>

\* the application drops the Receiver, and the values in the channel with it
RxDrop ==
    /\ rxAlive
    /\ rxAlive' = FALSE
    /\ chan' = <<>>
    /\ calls' = <<>>
    /\ result' = NoResult
    /\ UNCHANGED <<classes, oswin, subclassed, queue, quitFlag, tray, fg,
                   WM_TASKBARCREATED, window, life,
                   sendFailed, tracking, created, failedWins>>

Next ==
    \/ Construct
    \/ Drop
    \/ SetIcon
    \/ PumpPosted
    \/ PumpQuit
    \/ Interaction
    \/ TaskbarCreated
    \/ MenuCommand
    \/ OtherMessage
    \/ TrackEnd
    \/ Recv
    \/ RxDrop

Spec == Init /\ [][Next]_vars

\* Construction, the message loop and the shell's restarts alone, with the
\* message loop running: a posted message is dispatched in the end
NextLive ==
    \/ Construct
    \/ Drop
    \/ PumpPosted
    \/ PumpQuit
    \/ TaskbarCreated
    \/ OtherMessage

LiveSpec == Init /\ [][NextLive]_vars /\ WF_vars(PumpPosted)

(* ------------------------------ claims -------------------------------- *)
Opt(e) == IF e = None THEN <<>> ELSE <<e>>
Suffix(q, n) == SubSeq(q, Len(q) - n + 1, Len(q))
\* the calls of subproc that started in the last step
IsSub(c) == c.proc = "subproc" /\ c.began
IsTray(c) == IsSub(c) /\ c.msg = WM_USER_TRAYICON
\* the event configured for the interaction with sub-event code l
Configured(l) ==
    IF l = WM_LBUTTONUP THEN window.click_event
    ELSE IF l = WM_LBUTTONDBLCLK THEN window.double_click_event
    ELSE IF l = WM_RBUTTONUP THEN window.right_click_event
    ELSE None

\* C1: every handled tray-icon interaction hands to the channel exactly the
\* event configured for its sub-event code (click for a left-click, double
\* click for a double-click, right click for a right-click) and no other
\* value; with the receiver alive that value is the newest in the channel.
C1_InteractionSelectsEvent ==
    \A i \in DOMAIN calls :
        IsTray(calls[i]) =>
            /\ calls[i].sent = Opt(Configured(calls[i].lparam))
            /\ rxAlive => /\ Len(chan) >= Len(calls[i].sent)
                          /\ Suffix(chan, Len(calls[i].sent)) = calls[i].sent

\* a double-click was handled with all three events configured, and its
\* event alone was sent
C1_Witness ==
    \E i \in DOMAIN calls :
        /\ IsTray(calls[i])
        /\ calls[i].lparam = WM_LBUTTONDBLCLK
        /\ window.click_event = "click"
        /\ window.right_click_event = "right"
        /\ calls[i].sent = <<"double">>
        /\ rxAlive
        /\ chan # <<>>
        /\ chan[Len(chan)] = "double"

\* C2 (as claimed): handling the selection of a menu item whose identifier
\* is in the identifier-to-event mapping sends the mapped event.
C2_MenuItemEmitsMapped ==
    \A i \in DOMAIN calls :
        ( /\ IsSub(calls[i])
          /\ calls[i].msg = WM_MENUCOMMAND
          /\ window.menu_events.is_some
          /\ calls[i].wparam \in DOMAIN window.menu_events.map )
        => calls[i].sent = <<window.menu_events.map[calls[i].wparam]>>

\* C3: an interaction whose kind has no event configured sends nothing,
\* whatever the other two kinds are configured with.
C3_NoEventNoSend ==
    \A i \in DOMAIN calls :
        (IsTray(calls[i]) /\ Configured(calls[i].lparam) = None)
        => calls[i].sent = <<>>

\* a left-click was handled with no click event and both other events
\* configured
C3_Witness ==
    \E i \in DOMAIN calls :
        /\ IsTray(calls[i])
        /\ calls[i].lparam = WM_LBUTTONUP
        /\ window.click_event = None
        /\ window.double_click_event = "double"
        /\ window.right_click_event = "right"
        /\ calls[i].sent = <<>>

\* C4: a right-click with a menu configured sends the right-click event (if
\* one is configured) and makes one menu.track call, for the handled window
\* at the cursor position; menu.track is called exactly when the
\* interaction is a right-click and a menu is configured.
C4_RightClickShowsMenu ==
    \A i \in DOMAIN calls :
        IsTray(calls[i]) =>
            IF calls[i].lparam = WM_RBUTTONUP /\ window.hmenu # None
            THEN /\ calls[i].sent = Opt(window.right_click_event)
                 /\ calls[i].tracks = <<<<calls[i].hwnd, calls[i].cursor[1],
                                          calls[i].cursor[2]>>>>
                 /\ fg = calls[i].hwnd
            ELSE calls[i].tracks = <<>>

\* a right-click with menu and event configured was handled away from the
\* origin: the event was sent and the menu shown there
C4_Witness ==
    \E i \in DOMAIN calls :
        /\ IsTray(calls[i])
        /\ calls[i].lparam = WM_RBUTTONUP
        /\ calls[i].sent = <<"right">>
        /\ calls[i].tracks = <<<<window.hwnd, 5, 7>>>>
        /\ tracking = 1

\* C5: handling the window-created notification attaches the icon, and so
\* does handling every taskbar-recreated message once the static holds the
\* registered id; and a live adapter whose icon is not attached gets it
\* attached (unless it is dropped first).
C5_Attached ==
    \A i \in DOMAIN calls :
        ( /\ IsSub(calls[i])
          /\ \/ calls[i].msg = WM_USER_CREATE
             \/ calls[i].msg = TaskbarCreatedId /\ calls[i].static = TaskbarCreatedId )
        => /\ calls[i].adds = 1
           /\ Shown(calls[i].hwnd) = window.notify_icon
C5_IconAttached ==
    /\ []C5_Attached
    /\ (life = "live" /\ Shown(window.hwnd) = None)
           ~> (life # "live" \/ Shown(window.hwnd) # None)

\* the icon was attached again by a taskbar-recreated message
C5_Witness ==
    \E i \in DOMAIN calls :
        /\ IsSub(calls[i])
        /\ calls[i].msg = TaskbarCreatedId
        /\ calls[i].static = TaskbarCreatedId
        /\ calls[i].adds = 1
        /\ life = "live"
        /\ Shown(window.hwnd) = window.notify_icon

\* C6: the application's drop of the adapter makes exactly one WM_CLOSE
\* request, to the window that construction created; that window is then
\* destroyed and the message loop has been asked to quit.
CloseRequests == {i \in DOMAIN calls : calls[i].proc = "SendMessageA" /\ calls[i].msg = WM_CLOSE}
C6_DropClosesWindow ==
    result.op = "drop" =>
        /\ Cardinality(CloseRequests) = 1
        /\ \A i \in CloseRequests : calls[i].hwnd = created
        /\ created # 0
        /\ ~(created \in oswin)
        /\ quitFlag
        /\ \E i \in DOMAIN calls : IsSub(calls[i]) /\ calls[i].msg = WM_DESTROY
                                     /\ calls[i].hwnd = created /\ calls[i].quits = 1

\* an adapter was dropped while another window, left by a failed
\* construction, exists
C6_Witness ==
    /\ result.op = "drop"
    /\ quitFlag
    /\ oswin # {}
    /\ \E i \in CloseRequests : calls[i].hwnd = created

\* C7: new returns Ok exactly when CreateWindowExA and SetWindowSubclass
\* both succeed, and OsError otherwise; after Ok the adapter holds the
\* created, subclassed window; no window of a failed construction is
\* subclassed or ever has an icon attached.
C7_ConstructionErrors ==
    /\ result.op = "new" =>
          /\ result.value = (IF created # 0 /\ result.subclassOk THEN Ok ELSE OsError)
          /\ ~result.createOk => created = 0
          /\ result.value = Ok => /\ life = "live"
                                  /\ window.hwnd = created
                                  /\ created \in oswin \cap subclassed
          /\ result.value = OsError => life = "none"
    /\ \A h \in failedWins : Shown(h) = None /\ ~(h \in subclassed)
    /\ \A i \in DOMAIN calls : calls[i].hwnd \in failedWins => calls[i].adds = 0

\* the window of a construction that failed in SetWindowSubclass has got
\* the taskbar-recreated message
C7_Witness ==
    /\ failedWins # {}
    /\ \E i \in DOMAIN calls : /\ calls[i].hwnd \in failedWins
                               /\ calls[i].msg = TaskbarCreatedId
                               /\ calls[i].proc = "winproc"

\* C8: set_icon_from_buffer returns IconLoadingFailed for a buffer that
\* does not decode and leaves the record's icon and the shown icon as they
\* were; for a buffer that decodes it returns Ok and the record's icon, and
\* the shown icon if one is shown, are the new icon.
C8_IconUpdate ==
    result.op = "set_icon_from_buffer" =>
        IF result.buffer.decodes
        THEN /\ result.value = Ok
             /\ window.notify_icon = result.buffer.icon
             /\ Shown(window.hwnd) = (IF result.shown_before = None THEN None
                                      ELSE result.buffer.icon)
        ELSE /\ result.value = IconLoadingFailed
             /\ window.notify_icon = result.icon_before
             /\ Shown(window.hwnd) = result.shown_before

\* an update with a buffer that does not decode failed while another icon
\* than the initial one was shown
C8_Witness ==
    /\ result.op = "set_icon_from_buffer"
    /\ ~result.buffer.decodes
    /\ result.value = IconLoadingFailed
    /\ result.shown_before = "icon1"
    /\ Shown(window.hwnd) = "icon1"

\* C9: a message that matches none of subproc's arms (window created, menu
\* command, tray icon, destroy, the static's value) is handed to the
\* default handler and subproc returns what that returned; winproc does the
\* same with every message but WM_CREATE.
Recognized(c) ==
    \/ c.msg \in {WM_USER_CREATE, WM_MENUCOMMAND, WM_USER_TRAYICON, WM_DESTROY}
    \/ c.msg = c.static
Forwarded(i, to) ==
    /\ i > 1
    /\ calls[i - 1].proc = to
    /\ calls[i - 1].hwnd = calls[i].hwnd
    /\ calls[i - 1].msg = calls[i].msg
    /\ calls[i - 1].wparam = calls[i].wparam
    /\ calls[i - 1].lparam = calls[i].lparam
    /\ calls[i].ret = calls[i - 1].ret
C9_UnrecognizedForwarded ==
    \A i \in DOMAIN calls :
        /\ (IsSub(calls[i]) /\ ~Recognized(calls[i])) => Forwarded(i, "winproc")
        /\ (calls[i].proc = "winproc" /\ calls[i].msg # WM_CREATE)
              => Forwarded(i, "DefWindowProcA")

\* subproc got WM_QUERYENDSESSION and returned the default handler's TRUE
C9_Witness ==
    \E i \in DOMAIN calls :
        /\ IsSub(calls[i])
        /\ calls[i].msg = WM_QUERYENDSESSION
        /\ calls[i].ret = 1
        /\ Forwarded(i, "winproc")

\* C10: with the receiver gone the handler of an interaction does what it
\* does otherwise: it hands the configured event to the channel, shows the
\* menu on a right-click with a menu, and returns 0 (or is inside
\* menu.track); the step leaves the adapter record, its lifetime and the
\* window as they were and the channel empty, also when a send had failed
\* before.
C10_State ==
    \A i \in DOMAIN calls :
        (IsTray(calls[i]) /\ ~rxAlive) =>
            /\ calls[i].sent = Opt(Configured(calls[i].lparam))
            /\ calls[i].tracks # <<>> <=> (calls[i].lparam = WM_RBUTTONUP /\ window.hmenu # None)
            /\ calls[i].ret = 0
            /\ calls[i].tracks = <<>> => calls[i].returned
            /\ chan = <<>>
            /\ life = "live"
            /\ calls[i].hwnd \in oswin \cap subclassed
C10_Step ==
    (~rxAlive /\ \E i \in DOMAIN calls' : IsTray(calls'[i]))
        => /\ window' = window
           /\ life' = life
           /\ oswin' = oswin
           /\ subclassed' = subclassed
           /\ WM_TASKBARCREATED' = WM_TASKBARCREATED
C10_SendFailureSwallowed == []C10_State /\ [][C10_Step]_vars

\* after an earlier failed send, a right-click's send failed and the menu
\* was shown all the same
C10_Witness ==
    \E i \in DOMAIN calls :
        /\ IsTray(calls[i])
        /\ ~rxAlive
        /\ calls[i].afterFailure
        /\ calls[i].lparam = WM_RBUTTONUP
        /\ calls[i].sent = <<"right">>
        /\ calls[i].tracks # <<>>
        /\ chan = <<>>

\* C11 (as claimed): no call of subproc starts while another call of subproc
\* for the same window is in progress: none starts while a right-click
\* handler is inside menu.track, and none starts inside another one.
Within(k, i) == k < i /\ calls[i].began /\ calls[i].start < k
C11_NonReentrant ==
    \A i \in DOMAIN calls :
        IsSub(calls[i]) =>
            /\ ~calls[i].inMenu
            /\ \A k \in DOMAIN calls :
                  (IsSub(calls[k]) /\ calls[k].hwnd = calls[i].hwnd) => ~Within(k, i)
\* the two ways apart: a handler starts while the menu is shown
C11_NoneDuringMenu ==
    \A i \in DOMAIN calls : IsSub(calls[i]) => ~calls[i].inMenu
\* ... and a handler starts inside another handler's call of the default
\* procedure
C11_NoneNested ==
    \A i, k \in DOMAIN calls :
        (IsSub(calls[i]) /\ IsSub(calls[k]) /\ calls[k].hwnd = calls[i].hwnd)
        => ~Within(k, i)

\* C12: a call of subproc with WM_DESTROY calls PostQuitMessage exactly
\* once, handles the message itself (returns 0 without the default
\* procedure) and leaves the quit requested; no other call of subproc, of
\* winproc or of the default procedures calls PostQuitMessage.
C12_DestroyQuitsOnce ==
    \A i \in DOMAIN calls :
        IF IsSub(calls[i]) /\ calls[i].msg = WM_DESTROY
        THEN /\ calls[i].quits = 1
             /\ calls[i].ret = 0
             /\ ~calls[i].fwd
             /\ quitFlag
        ELSE calls[i].quits = 0

\* the window was destroyed by a close request: the handler of WM_DESTROY
\* asked for the quit, those of WM_CLOSE and WM_NCDESTROY did not
C12_Witness ==
    /\ quitFlag
    /\ \E i, j, k \in DOMAIN calls :
          /\ IsSub(calls[i]) /\ calls[i].msg = WM_DESTROY /\ calls[i].quits = 1
          /\ IsSub(calls[j]) /\ calls[j].msg = WM_CLOSE /\ calls[j].quits = 0
          /\ IsSub(calls[k]) /\ calls[k].msg = WM_NCDESTROY /\ calls[k].quits = 0

\* C13: every call of new leaves exactly the class "TrayIconCls"
\* registered, so a call that finds it registered leaves the class set as
\* it was; and whether the class was registered before or not, the call
\* creates a window exactly when CreateWindowExA can (it is let to, and a
\* handle is free) and returns Ok exactly when SetWindowSubclass succeeds
\* as well.
C13_Step ==
    result'.op = "new" =>
        /\ classes' = {WndClassName}
        /\ classes # {} => classes' = classes
        /\ created' # 0 <=> (result'.createOk /\ Handles \ oswin # {})
        /\ result'.value = Ok <=> (created' # 0 /\ result'.subclassOk)
C13_RegistrationIdempotent == [][C13_Step]_vars

\* a construction succeeded when an earlier adapter had been constructed,
\* had handled its window-created message and had been dropped
C13_Witness ==
    /\ result.op = "new"
    /\ result.value = Ok
    /\ WM_TASKBARCREATED = TaskbarCreatedId
    /\ classes = {WndClassName}

\* C14: no call of winproc or subproc returns with the record's window
\* handle, menu handle, three events or menu-item mapping other than they
\* were when it started; a step of message handling leaves these fields as
\* they were, and so does set_icon_from_buffer, which changes the icon
\* only.
C14_Kept ==
    \A i \in DOMAIN calls : calls[i].proc \in {"subproc", "winproc"} => calls[i].kept
C14_Step ==
    /\ (result'.op = "none" /\ \E i \in DOMAIN calls' :
                                  calls'[i].proc \in {"subproc", "winproc"})
          => Frame(window') = Frame(window)
    /\ result'.op = "set_icon_from_buffer" => Frame(window') = Frame(window)
C14_RecordFrame == []C14_Kept /\ [][C14_Step]_vars

\* a menu command was handled by an adapter that has a mapping, and the
\* mapping is still there
C14_Witness ==
    \E i \in DOMAIN calls :
        /\ IsSub(calls[i])
        /\ calls[i].msg = WM_MENUCOMMAND
        /\ calls[i].kept
        /\ window.menu_events.is_some
        /\ window.hmenu # None

\* C15 (as claimed): a call of subproc calls notify_icon.add only when its
\* message is WM_USER_CREATE or the id that RegisterWindowMessageA gives
\* for "TaskbarCreated", whether WM_USER_CREATE has been handled or not.
C15_AttachOnlyOnCreateOrTaskbar ==
    \A i \in DOMAIN calls :
        (IsSub(calls[i]) /\ calls[i].adds > 0)
        => calls[i].msg \in {WM_USER_CREATE, RegisterWindowMessageA("TaskbarCreated")}

\* C16 (as claimed): when new has returned an error, the window that its
\* call of CreateWindowExA created, if any, does not exist any more; so no
\* window of a failed construction is ever open.
C16_NoWindowLeftOpen ==
    /\ (result.op = "new" /\ result.value = OsError) => ~(created \in oswin)
    /\ failedWins \cap oswin = {}

\* C17: every call of subproc starts while the adapter is alive or inside
\* its drop, never after the drop has returned: when the adapter is gone
\* no window has subproc installed; and the drop returns only after the
\* close request, the handling of WM_DESTROY with its quit request and the
\* handling of WM_NCDESTROY have returned inside it.
C17_NoHandlerAfterDrop ==
    /\ \A i \in DOMAIN calls :
          calls[i].proc = "subproc" => calls[i].life \in {"live", "dropping"}
    /\ life # "live" => subclassed = {}
    /\ result.op = "drop" =>
          \E c \in DOMAIN calls :
              /\ calls[c].proc = "SendMessageA" /\ calls[c].msg = WM_CLOSE
              /\ calls[c].returned
              /\ c = Len(calls)
              /\ \A m \in {WM_CLOSE, WM_DESTROY, WM_NCDESTROY} :
                    \E d \in DOMAIN calls :
                        /\ IsSub(calls[d]) /\ calls[d].msg = m
                        /\ calls[d].hwnd = calls[c].hwnd
                        /\ calls[d].life = "dropping"
                        /\ calls[d].returned
                        /\ Within(d, c)
                        /\ calls[d].quits = (IF m = WM_DESTROY THEN 1 ELSE 0)
              /\ ~(calls[c].hwnd \in oswin)
              /\ \A k \in DOMAIN queue : queue[k].hwnd # calls[c].hwnd
              /\ quitFlag

\* after the drop a message reached a window that is still there (left by
\* a failed construction): winproc alone handled it
C17_Witness ==
    /\ life = "dropped"
    /\ \E i \in DOMAIN calls :
          /\ calls[i].proc = "winproc"
          /\ calls[i].life = "dropped"
          /\ calls[i].msg = TaskbarCreatedId
    /\ \A i \in DOMAIN calls : calls[i].proc # "subproc"

\* C18: a handled interaction hands at most one value to the channel, and
\* a right-click that shows the menu has handed its event over before it
\* calls menu.track; with the receiver alive, the values a step's handlers
\* send are appended to the channel in the order the handlers sent them,
\* behind the values of the earlier interactions, and the receiver takes
\* the oldest value first.
RECURSIVE SentBy(_)
SentBy(cs) == IF cs = <<>> THEN <<>> ELSE cs[1].sent \o SentBy(Tail(cs))
C18_State ==
    \A i \in DOMAIN calls :
        IsTray(calls[i]) =>
            /\ Len(calls[i].sent) <= 1
            /\ calls[i].tracks # <<>> => calls[i].sentBefore = Len(calls[i].sent)
            /\ calls[i].tracks = <<>> => calls[i].sentBefore = -1
C18_Step ==
    /\ (rxAlive /\ calls' # <<>> /\ result'.op # "new")
          => chan' = chan \o SentBy(calls')
    /\ (rxAlive' /\ calls' = <<>> /\ chan' # chan) => chan' = Tail(chan)
C18_EventOrder == []C18_State /\ [][C18_Step]_vars

\* a left-click and then a right-click were handled: the channel holds
\* their events in that order and the menu is shown
C18_Witness ==
    /\ chan = <<"click", "right">>
    /\ tracking = 1
    /\ \E i \in DOMAIN calls :
          /\ IsTray(calls[i])
          /\ calls[i].lparam = WM_RBUTTONUP
          /\ calls[i].sent = <<"right">>
          /\ calls[i].tracks # <<>>
          /\ calls[i].sentBefore = 1

====
